---- MODULE Spec2Model ----
(***************************************************************************)
(* The rendezvous server of src/bin/rendezvous.rs: a UDP loop that decodes *)
(* one message per datagram and dispatches it against an in-memory peer    *)
(* registry.  One action per outcome of one iteration of the loop in run.  *)
(*                                                                         *)
(* Abstractions.  A datagram is a sequence of tokens (naturals).  The      *)
(* bincode layout is kept token for token: a variant tag, a string as its  *)
(* length followed by its characters, an Option as 0 or 1 followed by the  *)
(* value.  A SocketAddr and a SystemTime are one token each.               *)
(*                                                                         *)
(* The line tool of src/main.rs is a separate executable: it is modelled   *)
(* by the variable cli and the specification CliSpec.  A line of text is a *)
(* sequence of one-character strings.                                      *)
(***************************************************************************)
EXTENDS Naturals, Sequences, FiniteSets, TLC

VARIABLES
    peers,      \* RendezvousServer.peers: a set of entries [key, value]
    wallClock,  \* what SystemTime::now() returns
    running,    \* TRUE until run returns (with an Err)
    last,       \* what the latest iteration of the loop in run did
    out,        \* the socket.send_to calls of the latest iteration, in order
    regSource,  \* history: peer id -> source address of its latest Register
    cli         \* the session of the line tool of src/main.rs (see CliStart)

vars == <<peers, wallClock, running, last, out, regSource, cli>>

\* ------------------------------------------------------------------ bounds

MaxAddr == 2
MaxTime == 1
MaxValueWords == 2

\* Source addresses the transport reports, and the private addresses peers
\* declare (a peer that is not behind a NAT declares its public address).
Addrs == 1..MaxAddr
PrivAddrs == {1, 2}
SocketAddrs == Addrs \cup PrivAddrs
Times == 0..MaxTime
Chars == {1, 2}
PeerIds == {<<1>>, <<2, 1>>}

None == <<>>
Some(x) == <<x>>

\* ------------------------------------------------------------ wire format

Tag(kind) ==
    CASE kind = "Register" -> 0
      [] kind = "Query" -> 1
      [] kind = "PeerInfo" -> 2
      [] kind = "InitiateConnection" -> 3

EncString(s) == <<Len(s)>> \o s

EncOption(o) == IF o = None THEN <<0>> ELSE <<1, o[1]>>

EncPeerInfo(p) ==
    EncString(p.peer_id) \o <<p.public_addr>> \o EncOption(p.private_addr)
        \o <<p.last_seen>>

Encode(m) ==
    <<Tag(m.kind)>> \o
    CASE m.kind = "Register" -> EncString(m.peer_id) \o <<m.private_addr>>
      [] m.kind = "Query" -> EncString(m.target_peer_id)
      [] m.kind = "PeerInfo" -> EncPeerInfo(m.peer)
      [] m.kind = "InitiateConnection" ->
            EncString(m.from_peer_id) \o EncString(m.to_peer_id)

\* A parser returns [ok, val, rest]; a failed one has ok = FALSE.
Fail == [ok |-> FALSE, val |-> None, rest |-> <<>>]
Ok(v, r) == [ok |-> TRUE, val |-> v, rest |-> r]
Drop(b, n) == SubSeq(b, n + 1, Len(b))

DecString(b) ==
    IF Len(b) = 0 THEN Fail
    ELSE LET n == b[1] IN
         IF Len(b) < 1 + n THEN Fail
         ELSE IF \E i \in 2..(1 + n) : b[i] \notin Chars THEN Fail
         ELSE Ok(SubSeq(b, 2, 1 + n), Drop(b, 1 + n))

DecAddr(b) ==
    IF Len(b) = 0 \/ b[1] \notin SocketAddrs THEN Fail
    ELSE Ok(b[1], Drop(b, 1))

DecTime(b) ==
    IF Len(b) = 0 \/ b[1] \notin Times THEN Fail ELSE Ok(b[1], Drop(b, 1))

DecOption(b) ==
    IF Len(b) = 0 THEN Fail
    ELSE IF b[1] = 0 THEN Ok(None, Drop(b, 1))
    ELSE IF b[1] = 1
         THEN LET a == DecAddr(Drop(b, 1)) IN
              IF a.ok THEN Ok(Some(a.val), a.rest) ELSE Fail
    ELSE Fail

DecPeerInfo(b) ==
    LET id == DecString(b) IN
    IF ~id.ok THEN Fail ELSE
    LET pub == DecAddr(id.rest) IN
    IF ~pub.ok THEN Fail ELSE
    LET priv == DecOption(pub.rest) IN
    IF ~priv.ok THEN Fail ELSE
    LET seen == DecTime(priv.rest) IN
    IF ~seen.ok THEN Fail ELSE
    Ok([peer_id |-> id.val, public_addr |-> pub.val,
        private_addr |-> priv.val, last_seen |-> seen.val], seen.rest)

\* bincode::decode_from_slice: bytes after the message are left unread.
Decode(b) ==
    IF Len(b) = 0 THEN Fail
    ELSE LET body == Drop(b, 1) IN
    CASE b[1] = 0 ->
            LET id == DecString(body) IN
            IF ~id.ok THEN Fail ELSE
            LET priv == DecAddr(id.rest) IN
            IF ~priv.ok THEN Fail ELSE
            Ok([kind |-> "Register", peer_id |-> id.val,
                private_addr |-> priv.val], priv.rest)
      [] b[1] = 1 ->
            LET id == DecString(body) IN
            IF ~id.ok THEN Fail ELSE
            Ok([kind |-> "Query", target_peer_id |-> id.val], id.rest)
      [] b[1] = 2 ->
            LET p == DecPeerInfo(body) IN
            IF ~p.ok THEN Fail ELSE
            Ok([kind |-> "PeerInfo", peer |-> p.val], p.rest)
      [] b[1] = 3 ->
            LET a == DecString(body) IN
            IF ~a.ok THEN Fail ELSE
            LET c == DecString(a.rest) IN
            IF ~c.ok THEN Fail ELSE
            Ok([kind |-> "InitiateConnection", from_peer_id |-> a.val,
                to_peer_id |-> c.val], c.rest)
      [] OTHER -> Fail

\* ------------------------------------------------------------- the inputs

PeerInfos ==
    [peer_id : PeerIds, public_addr : Addrs,
     private_addr : {None} \cup {Some(a) : a \in PrivAddrs},
     last_seen : Times]

RegisterMsgs ==
    [kind : {"Register"}, peer_id : PeerIds, private_addr : PrivAddrs]
QueryMsgs == [kind : {"Query"}, target_peer_id : PeerIds]
PeerInfoMsgs == [kind : {"PeerInfo"}, peer : PeerInfos]
InitiateMsgs ==
    [kind : {"InitiateConnection"}, from_peer_id : PeerIds,
     to_peer_id : PeerIds]

Requests == RegisterMsgs \cup QueryMsgs \cup InitiateMsgs
Messages == Requests \cup PeerInfoMsgs

WellFormed == {Encode(m) : m \in Messages}

\* What the network can deliver besides well-formed messages: a truncated
\* datagram, an unknown variant tag, a string length that lies, and bytes
\* after the message.
Truncated ==
    UNION {{SubSeq(d, 1, n) : n \in 0..(Len(d) - 1)} : d \in WellFormed}
UnknownTag == {<<4>> \o Drop(d, 1) : d \in WellFormed}
BadLength ==
    {<<d[1], d[2] + 1>> \o Drop(d, 2) : d \in {Encode(m) : m \in Requests}}
Trailing == {Encode(m) \o <<0>> : m \in Requests}

\* A Register that declares no private address: the field left out, or sent
\* as an absent Option.
BareRegister(peer_id) ==
    {<<Tag("Register")>> \o EncString(peer_id),
     <<Tag("Register")>> \o EncString(peer_id) \o EncOption(None)}
BareRegisters == UNION {BareRegister(p) : p \in PeerIds}

Datagrams ==
    WellFormed \cup Truncated \cup UnknownTag \cup BadLength \cup Trailing
        \cup BareRegisters

\* The datagrams that decode_from_slice rejects, and the messages it yields
\* for the others, by variant.
Undecodable == {b \in Datagrams : ~Decode(b).ok}
\* Of a rejected datagram the history keeps whether it was a Register without
\* private address, and for which peer id.
BareRegisterOf(b) ==
    IF \E p \in PeerIds : b \in BareRegister(p)
    THEN Some(CHOOSE p \in PeerIds : b \in BareRegister(p))
    ELSE None
UndecodableBare == {BareRegisterOf(b) : b \in Undecodable}
Decoded == {Decode(b).val : b \in Datagrams \ Undecodable}
RegisterIn == {m \in Decoded : m.kind = "Register"}
QueryIn == {m \in Decoded : m.kind = "Query"}
InitiateIn == {m \in Decoded : m.kind = "InitiateConnection"}
PeerInfoIn == {m \in Decoded : m.kind = "PeerInfo"}

\* ------------------------------------------------------------ the registry

\* Mutant: the public address is taken from the message body.
NewPeerInfoFromBody(peer_id, from, private_addr, now) ==
    [peer_id |-> peer_id, public_addr |-> private_addr,
     private_addr |-> Some(private_addr), last_seen |-> now]

\* Mutant: the record is stored before its private address is filled in.
NewPeerInfoHalfBuilt(peer_id, from, private_addr, now) ==
    [peer_id |-> peer_id, public_addr |-> from,
     private_addr |-> None, last_seen |-> now]

\* Mutant: the record is stored without the peer id.
NewPeerInfoAnonymous(peer_id, from, private_addr, now) ==
    [peer_id |-> <<>>, public_addr |-> from,
     private_addr |-> Some(private_addr), last_seen |-> now]

\* The PeerInfo that the Register arm builds.
NewPeerInfo(peer_id, from, private_addr, now) ==
    [peer_id |-> peer_id, public_addr |-> from,
     private_addr |-> Some(private_addr), last_seen |-> now]

\* HashMap::get: Some(value) or None.
HashMapGet(map, k) ==
    IF \E e \in map : e.key = k
    THEN Some((CHOOSE e \in map : e.key = k).value)
    ELSE None

\* Mutant: first write wins (entry(k).or_insert(v)).
HashMapInsertKeepFirst(map, k, v) ==
    IF \E e \in map : e.key = k THEN map
    ELSE map \cup {[key |-> k, value |-> v]}

\* Mutant: one record per public address; an insert evicts the records
\* registered from the same address.
HashMapInsertEvict(map, k, v) ==
    {e \in map : e.key # k /\ e.value.public_addr # v.public_addr}
        \cup {[key |-> k, value |-> v]}

\* Mutant: an insert also refreshes last_seen of every other record.
HashMapInsertTouchAll(map, k, v) ==
    {[key |-> e.key,
      value |-> [e.value EXCEPT !.last_seen = v.last_seen]] :
            e \in {f \in map : f.key # k}}
        \cup {[key |-> k, value |-> v]}

\* HashMap::insert: the entry under k, if any, is replaced.
HashMapInsert(map, k, v) ==
    {e \in map : e.key # k} \cup {[key |-> k, value |-> v]}

\* What HashMap::insert returns and the Register arm drops: the record it
\* replaced, of which the history keeps the two fields a Register rewrites
\* from the server's own observations.
Replaced(map, k) ==
    LET old == HashMapGet(map, k) IN
    IF old = None THEN None
    ELSE Some([public_addr |-> old[1].public_addr,
               last_seen |-> old[1].last_seen])

PeerInfoMsg(p) == [kind |-> "PeerInfo", peer |-> p]

\* ------------------------------------------------------------ the handler

\* Mutant: the answer goes to the address registered for the target.
QuerySendsToTarget(map, target_peer_id, from) ==
    LET peer_info == HashMapGet(map, target_peer_id) IN
    IF peer_info = None THEN <<>>
    ELSE <<[to |-> peer_info[1].public_addr, msg |-> PeerInfoMsg(peer_info[1])]>>

\* Mutant: a lookup miss is answered, by echoing the Query.
QuerySendsNack(map, target_peer_id, from) ==
    LET peer_info == HashMapGet(map, target_peer_id) IN
    IF peer_info = None
    THEN <<[to |-> from,
            msg |-> [kind |-> "Query", target_peer_id |-> target_peer_id]]>>
    ELSE <<[to |-> from, msg |-> PeerInfoMsg(peer_info[1])]>>

\* The sends the Query arm makes, in order.
QuerySends(map, target_peer_id, from) ==
    LET peer_info == HashMapGet(map, target_peer_id) IN
    IF peer_info = None THEN <<>>
    ELSE <<[to |-> from, msg |-> PeerInfoMsg(peer_info[1])]>>

\* Mutant: with only the initiator registered, the initiator is still sent
\* a PeerInfo (its own record).
InitiateSendsPartial(map, from_peer_id, to_peer_id) ==
    LET from_peer == HashMapGet(map, from_peer_id)
        to_peer == HashMapGet(map, to_peer_id)
    IN  IF from_peer = None THEN <<>>
        ELSE IF to_peer = None
        THEN <<[to |-> from_peer[1].public_addr, msg |-> PeerInfoMsg(from_peer[1])]>>
        ELSE <<[to |-> from_peer[1].public_addr, msg |-> PeerInfoMsg(to_peer[1])],
               [to |-> to_peer[1].public_addr, msg |-> PeerInfoMsg(from_peer[1])]>>

\* The sends the InitiateConnection arm makes, in order.
InitiateSends(map, from_peer_id, to_peer_id) ==
    LET from_peer == HashMapGet(map, from_peer_id)
        to_peer == HashMapGet(map, to_peer_id)
    IN  IF from_peer = None \/ to_peer = None THEN <<>>
        ELSE <<[to |-> from_peer[1].public_addr, msg |-> PeerInfoMsg(to_peer[1])],
               [to |-> to_peer[1].public_addr, msg |-> PeerInfoMsg(from_peer[1])]>>

\* Mutant: a failed send is logged and the next one is still made.
SendAllKeepGoing(sends, res) ==
    [i \in 1..Len(sends) |->
        [to |-> sends[i].to, bytes |-> Encode(sends[i].msg), ok |-> res[i]]]

\* socket.send_to(encode_to_vec(msg), to)? for each send in turn: res[i] is
\* whether the socket accepts the i-th datagram.  The first Err returns from
\* the handler, so the calls made are the sends up to the first failure.
SendAll(sends, res) ==
    LET failing == {i \in 1..Len(sends) : ~res[i]}
        n == IF failing = {} THEN Len(sends)
             ELSE CHOOSE i \in failing : \A j \in failing : i <= j
    IN  [i \in 1..n |->
            [to |-> sends[i].to, bytes |-> Encode(sends[i].msg), ok |-> res[i]]]

\* handle_message returns Err exactly when a send failed.
HandlerErr(calls) == \E i \in 1..Len(calls) : ~calls[i].ok

\* Mutant: a decode error is propagated like a handler error.
LoopStopsOnDecodeError(outcome) == outcome \notin {"HandlerErr", "DecodeError"}

\* Whether the loop in run goes on after an iteration with this outcome.
LoopContinues(outcome) == outcome # "HandlerErr"

\* What the socket may answer to n successive send_to calls.
SendResults(n) == [1..n -> BOOLEAN]

\* ------------------------------------------------- the line tool: parsing

IsWhitespace(c) == c \in {" ", "\t", "\n", "\r"}

\* char::to_lowercase, on the letters the inputs use.
Lower(c) ==
    CASE c = "P" -> "p" [] c = "U" -> "u" [] c = "T" -> "t"
      [] c = "G" -> "g" [] c = "E" -> "e" [] c = "K" -> "k"
      [] c = "W" -> "w" [] OTHER -> c

ToLowercase(w) == [i \in 1..Len(w) |-> Lower(w[i])]

RECURSIVE TrimStart(_)
TrimStart(text) ==
    IF text # <<>> /\ IsWhitespace(Head(text)) THEN TrimStart(Tail(text))
    ELSE text

RECURSIVE TrimEnd(_)
TrimEnd(text) ==
    IF text # <<>> /\ IsWhitespace(text[Len(text)])
    THEN TrimEnd(SubSeq(text, 1, Len(text) - 1))
    ELSE text

Trim(text) == TrimEnd(TrimStart(text))

\* str::strip_prefix(char): Some(rest) or None.
StripPrefix(text, c) ==
    IF text # <<>> /\ Head(text) = c THEN Some(Tail(text)) ELSE None

\* The first word of a text that starts with a non-whitespace character.
RECURSIVE FirstWord(_)
FirstWord(text) ==
    IF text = <<>> \/ IsWhitespace(Head(text)) THEN <<>>
    ELSE <<Head(text)>> \o FirstWord(Tail(text))

\* str::split_whitespace, collected: the maximal runs of non-whitespace.
RECURSIVE SplitWhitespace(_)
SplitWhitespace(text) ==
    LET rest == TrimStart(text) IN
    IF rest = <<>> THEN <<>>
    ELSE LET word == FirstWord(rest) IN
         <<word>> \o SplitWhitespace(SubSeq(rest, Len(word) + 1, Len(rest)))

\* [&str]::join(" ").
RECURSIVE Join(_)
Join(words) ==
    IF words = <<>> THEN <<>>
    ELSE IF Len(words) = 1 THEN words[1]
    ELSE words[1] \o <<" ">> \o Join(Tail(words))

\* The fixed texts of Command::Unknown, each as one piece.
MissingKeyForPut == <<"missing key for put">>
MissingValueForPut == <<"missing value for put">>
MissingKeyForGet == <<"missing key for get">>

Unknown(raw) == [kind |-> "Unknown", raw |-> raw]

parse_command(input) ==
    LET trimmed == Trim(input)
        afterGt == IF StripPrefix(trimmed, ">") # None
                   THEN TrimStart(StripPrefix(trimmed, ">")[1])
                   ELSE trimmed
        line == IF StripPrefix(afterGt, "/") # None
                THEN TrimStart(StripPrefix(afterGt, "/")[1])
                ELSE afterGt
    IN  IF line = <<>> THEN [kind |-> "Empty"]
        ELSE
        LET parts == SplitWhitespace(line)
            cmd == ToLowercase(parts[1])
        IN  CASE cmd = <<"h", "e", "l", "p">> -> [kind |-> "Info"]
              [] cmd = <<"s", "t", "a", "t", "s">> -> [kind |-> "Stats"]
              [] cmd = <<"p", "i", "n", "g">> -> [kind |-> "Ping"]
              [] cmd \in {<<"q", "u", "i", "t">>, <<"b", "y", "e">>,
                          <<"e", "x", "i", "t">>} -> [kind |-> "Quit"]
              [] cmd = <<"p", "u", "t">> ->
                    IF Len(parts) < 2 THEN Unknown(MissingKeyForPut)
                    ELSE LET value == Join(SubSeq(parts, 3, Len(parts))) IN
                         IF value = <<>> THEN Unknown(MissingValueForPut)
                         ELSE [kind |-> "Put", key |-> parts[2],
                               value |-> value]
              [] cmd = <<"g", "e", "t">> ->
                    IF Len(parts) < 2 THEN Unknown(MissingKeyForGet)
                    ELSE [kind |-> "Get", key |-> parts[2]]
              [] OTHER -> Unknown(line)

\* Mutant: put keeps the value a key already has.
handle_put_keep_first(store, key, value) ==
    [store |-> HashMapInsertKeepFirst(store, key, value),
     report |-> [kind |-> "Stored", key |-> key, value |-> value]]

\* handle_put: the store it leaves and the line it prints.
handle_put(store, key, value) ==
    [store |-> HashMapInsert(store, key, value),
     report |-> [kind |-> "Stored", key |-> key, value |-> value]]

\* handle_get: the line it prints.
handle_get(store, key) ==
    LET found == HashMapGet(store, key) IN
    IF found = None THEN [kind |-> "NotFound", key |-> key]
    ELSE [kind |-> "Found", key |-> key, value |-> found[1]]

\* -------------------------------------------------- the line tool: inputs
\* A typed line is built from what the user means (verb and arguments) and
\* how it is typed (prompt echo, slash, spelling, gaps, line end).  What
\* the user means is kept beside the line, as the reference for the claims.

Keys == {<<"k">>, <<"K">>}
ValueWords == {<<"v">>, <<"W">>}
WordLists(n) == UNION {[1..m -> ValueWords] : m \in 1..n}

Verbs == {"put", "get", "help", "stats", "ping", "quit", "other", "none"}
Spellings(verb) ==
    CASE verb = "put" -> {<<"p", "u", "t">>, <<"P", "U", "T">>}
      [] verb = "get" -> {<<"g", "e", "t">>, <<"G", "e", "t">>}
      [] verb = "help" -> {<<"h", "e", "l", "p">>}
      [] verb = "stats" -> {<<"s", "t", "a", "t", "s">>}
      [] verb = "ping" -> {<<"p", "i", "n", "g">>}
      [] verb = "quit" -> {<<"q", "u", "i", "t">>, <<"b", "y", "e">>,
                           <<"e", "x", "i", "t">>}
      [] verb = "other" -> {<<"p", "u", "t", "s">>,
                            <<"/", "/", "p", "u", "t">>}
      [] verb = "none" -> {<<>>}
Arguments(verb) ==
    CASE verb = "put" ->
            {<<>>} \cup {<<k>> : k \in Keys}
                \cup {<<k>> \o ws : k \in Keys, ws \in WordLists(MaxValueWords)}
      [] verb = "other" ->
            {<<>>} \cup {<<k, w>> : k \in Keys, w \in ValueWords}
      [] verb = "get" ->
            {<<>>} \cup {<<k>> : k \in Keys}
                \cup {<<k, x>> : k \in Keys, x \in Keys}
      [] OTHER -> {<<>>}
Prefixes == {<<>>, <<"/">>, <<">">>, <<">", " ", "/">>, <<" ", "/", " ">>}
Gaps == {<<" ">>, <<" ", "\t">>}
LineEnds == {<<"\n">>, <<" ", "\r", "\n">>}

Meanings ==
    UNION {[verb : {verb}, args : Arguments(verb)] : verb \in Verbs}

RECURSIVE Spaced(_, _)
Spaced(words, gap) ==
    IF words = <<>> THEN <<>>
    ELSE gap \o words[1] \o Spaced(Tail(words), gap)

\* The ways of typing a meaning.
Typed(meaning) ==
    {prefix \o spelling \o Spaced(meaning.args, gap) \o end :
        prefix \in Prefixes, spelling \in Spellings(meaning.verb),
        gap \in Gaps, end \in LineEnds}

\* The lines stdin.read_line may return, each parsed, beside its meaning.
CliIn ==
    UNION {{[cmd |-> parse_command(line), meaning |-> meaning] :
                line \in Typed(meaning)} : meaning \in Meanings}

\* The session when the banner has been printed: an empty store.  asked
\* and lastPut are history: the meaning of the latest line, and for each key
\* the value words of the latest put that had a key and a value.
CliStart ==
    [store |-> {}, open |-> TRUE, report |-> [kind |-> "Banner"],
     asked |-> [verb |-> "none", args |-> <<>>],
     lastPut |-> [k \in Keys |-> None]]

\* The history after a line with this meaning.
Remember(meaning) ==
    [cli EXCEPT
        !.asked = meaning,
        !.lastPut = IF meaning.verb = "put" /\ Len(meaning.args) >= 2
                    THEN [cli.lastPut EXCEPT
                            ![meaning.args[1]] = Some(Tail(meaning.args))]
                    ELSE cli.lastPut]

\* ------------------------------------------------------------- the actions

Init ==
    /\ peers = {}
    /\ wallClock \in Times
    /\ running = TRUE
    /\ last = [kind |-> "Start"]
    /\ out = <<>>
    /\ regSource = <<>>
    /\ cli = CliStart

\* recv_from returns WouldBlock: sleep 10 ms and poll again.
RecvWouldBlock ==
    /\ running
    /\ last' = [kind |-> "WouldBlock"]
    /\ out' = <<>>
    /\ running' = LoopContinues("WouldBlock")
    /\ UNCHANGED <<peers, wallClock, regSource, cli>>

\* recv_from returns another error: it is logged.
RecvError ==
    /\ running
    /\ last' = [kind |-> "RecvError"]
    /\ out' = <<>>
    /\ running' = LoopContinues("RecvError")
    /\ UNCHANGED <<peers, wallClock, regSource, cli>>

\* A datagram that decode_from_slice rejects: the if let does not match.
RecvUndecodable ==
    /\ running
    /\ \E bare \in UndecodableBare, from \in Addrs :
        last' = [kind |-> "DecodeError",
                 bare_register |->
                    IF bare = None THEN None
                    ELSE Some([peer_id |-> bare[1], from |-> from])]
    /\ out' = <<>>
    /\ running' = LoopContinues("DecodeError")
    /\ UNCHANGED <<peers, wallClock, regSource, cli>>

\* Mutant: the Register arm acknowledges, by sending the new record back.
HandleRegisterAcks ==
    /\ running
    /\ \E msg \in RegisterIn, from \in Addrs :
        LET peer == NewPeerInfo(msg.peer_id, from, msg.private_addr, wallClock)
        IN  /\ peers' = HashMapInsert(peers, msg.peer_id, peer)
            /\ last' = [kind |-> "Register", from |-> from,
                        peer_id |-> msg.peer_id,
                        private_addr |-> msg.private_addr,
                        replaced |-> Replaced(peers, msg.peer_id)]
            /\ regSource' = (msg.peer_id :> from) @@ regSource
            /\ out' = SendAll(<<[to |-> from, msg |-> PeerInfoMsg(peer)]>>,
                              <<TRUE>>)
    /\ running' = LoopContinues("Handled")
    /\ UNCHANGED <<wallClock, cli>>

\* handle_message, Register arm.
HandleRegister ==
    /\ running
    /\ \E msg \in RegisterIn, from \in Addrs :
            /\ peers' = HashMapInsert(peers, msg.peer_id,
                            NewPeerInfo(msg.peer_id, from, msg.private_addr,
                                        wallClock))
            /\ last' = [kind |-> "Register", from |-> from,
                        peer_id |-> msg.peer_id,
                        private_addr |-> msg.private_addr,
                        replaced |-> Replaced(peers, msg.peer_id)]
            /\ regSource' = (msg.peer_id :> from) @@ regSource
    /\ out' = <<>>
    /\ running' = LoopContinues("Handled")
    /\ UNCHANGED <<wallClock, cli>>

\* handle_message, Query arm.
HandleQuery ==
    /\ running
    /\ \E msg \in QueryIn, from \in Addrs :
        LET sends == QuerySends(peers, msg.target_peer_id, from) IN
        \E res \in SendResults(Len(sends)) :
        LET calls == SendAll(sends, res)
        IN  /\ out' = calls
            /\ last' = [kind |-> "Query", from |-> from,
                        target_peer_id |-> msg.target_peer_id,
                        err |-> HandlerErr(calls)]
            /\ running' = LoopContinues(IF HandlerErr(calls) THEN "HandlerErr"
                                        ELSE "Handled")
    /\ UNCHANGED <<peers, wallClock, regSource, cli>>

\* Mutant: the initiator's copy goes to the source of the datagram, not to
\* the initiator's registered address.
HandleInitiateConnectionAnswersSource ==
    /\ running
    /\ \E msg \in InitiateIn, from \in Addrs :
        LET sends == InitiateSends(peers, msg.from_peer_id, msg.to_peer_id) IN
        \E res \in SendResults(Len(sends)) :
        LET calls == SendAll([i \in 1..Len(sends) |->
                                IF i = 1 THEN [sends[i] EXCEPT !.to = from]
                                ELSE sends[i]], res)
        IN  /\ out' = calls
            /\ last' = [kind |-> "InitiateConnection",
                        from_peer_id |-> msg.from_peer_id,
                        to_peer_id |-> msg.to_peer_id,
                        err |-> HandlerErr(calls)]
            /\ running' = LoopContinues(IF HandlerErr(calls) THEN "HandlerErr"
                                        ELSE "Handled")
    /\ UNCHANGED <<peers, wallClock, regSource, cli>>

\* handle_message, InitiateConnection arm.
HandleInitiateConnection ==
    /\ running
    /\ \E msg \in InitiateIn, from \in Addrs :
        LET sends == InitiateSends(peers, msg.from_peer_id, msg.to_peer_id) IN
        \E res \in SendResults(Len(sends)) :
        LET calls == SendAll(sends, res)
        IN  /\ out' = calls
            /\ last' = [kind |-> "InitiateConnection",
                        from_peer_id |-> msg.from_peer_id,
                        to_peer_id |-> msg.to_peer_id,
                        err |-> HandlerErr(calls)]
            /\ running' = LoopContinues(IF HandlerErr(calls) THEN "HandlerErr"
                                        ELSE "Handled")
    /\ UNCHANGED <<peers, wallClock, regSource, cli>>

\* Mutant: the server believes a PeerInfo it is sent and stores the record.
HandlePeerInfoStores ==
    /\ running
    /\ \E m \in PeerInfoIn :
        /\ last' = [kind |-> "PeerInfo", peer_id |-> m.peer.peer_id]
        /\ peers' = HashMapInsert(peers, m.peer.peer_id, m.peer)
    /\ out' = <<>>
    /\ running' = LoopContinues("Handled")
    /\ UNCHANGED <<wallClock, regSource, cli>>

\* handle_message, catch-all arm: a PeerInfo sent to the server.
HandlePeerInfo ==
    /\ running
    /\ \E peer_id \in {m.peer.peer_id : m \in PeerInfoIn} :
        last' = [kind |-> "PeerInfo", peer_id |-> peer_id]
    /\ out' = <<>>
    /\ running' = LoopContinues("Handled")
    /\ UNCHANGED <<peers, wallClock, regSource, cli>>

\* The wall clock moves on between two readings.
ClockTick ==
    /\ running
    /\ wallClock < MaxTime
    /\ wallClock' = wallClock + 1
    /\ UNCHANGED <<peers, running, last, out, regSource, cli>>

\* The wall clock is set back (SystemTime is not monotonic).
ClockSetBack ==
    /\ running
    /\ \E t \in Times : t < wallClock /\ wallClock' = t
    /\ UNCHANGED <<peers, running, last, out, regSource, cli>>

Next ==
    \/ RecvWouldBlock
    \/ RecvError
    \/ RecvUndecodable
    \/ HandleRegister
    \/ HandleQuery
    \/ HandleInitiateConnection
    \/ HandlePeerInfo
    \/ ClockTick
    \/ ClockSetBack

Spec == Init /\ [][Next]_vars

\* ------------------------------------------------- the line tool: actions
\* One action per arm of the match in main, and one for the end of input.

ServerIdle == UNCHANGED <<peers, wallClock, running, last, out, regSource>>

CliInit ==
    /\ cli = CliStart
    /\ peers = {}
    /\ wallClock = 0
    /\ running = FALSE
    /\ last = [kind |-> "Start"]
    /\ out = <<>>
    /\ regSource = <<>>

\* read_line returns 0 bytes: the loop ends.
MainEof ==
    /\ cli.open
    /\ cli' = [cli EXCEPT !.open = FALSE, !.report = [kind |-> "Eof"],
                           !.asked = [verb |-> "none", args |-> <<>>]]
    /\ ServerIdle

\* Command::Empty: continue, nothing is printed.
MainEmpty ==
    /\ cli.open
    /\ \E in \in CliIn :
        /\ in.cmd.kind = "Empty"
        /\ cli' = [Remember(in.meaning) EXCEPT !.report = [kind |-> "Empty"]]
    /\ ServerIdle

MainInfo ==
    /\ cli.open
    /\ \E in \in CliIn :
        /\ in.cmd.kind = "Info"
        /\ cli' = [Remember(in.meaning) EXCEPT !.report = [kind |-> "Info"]]
    /\ ServerIdle

MainStats ==
    /\ cli.open
    /\ \E in \in CliIn :
        /\ in.cmd.kind = "Stats"
        /\ cli' = [Remember(in.meaning) EXCEPT
                    !.report = [kind |-> "Stats",
                                len |-> Cardinality(cli.store)]]
    /\ ServerIdle

MainPut ==
    /\ cli.open
    /\ \E in \in CliIn :
        /\ in.cmd.kind = "Put"
        /\ LET done == handle_put(cli.store, in.cmd.key, in.cmd.value) IN
           cli' = [Remember(in.meaning) EXCEPT
                    !.store = done.store, !.report = done.report]
    /\ ServerIdle

MainGet ==
    /\ cli.open
    /\ \E in \in CliIn :
        /\ in.cmd.kind = "Get"
        /\ cli' = [Remember(in.meaning) EXCEPT
                    !.report = handle_get(cli.store, in.cmd.key)]
    /\ ServerIdle

MainPing ==
    /\ cli.open
    /\ \E in \in CliIn :
        /\ in.cmd.kind = "Ping"
        /\ cli' = [Remember(in.meaning) EXCEPT !.report = [kind |-> "Pong"]]
    /\ ServerIdle

\* Command::Quit: the loop ends.
MainQuit ==
    /\ cli.open
    /\ \E in \in CliIn :
        /\ in.cmd.kind = "Quit"
        /\ cli' = [Remember(in.meaning) EXCEPT
                    !.open = FALSE, !.report = [kind |-> "Bye"]]
    /\ ServerIdle

\* Command::Unknown(raw): "Unknown command: {raw}".
MainUnknown ==
    /\ cli.open
    /\ \E in \in CliIn :
        /\ in.cmd.kind = "Unknown"
        /\ cli' = [Remember(in.meaning) EXCEPT
                    !.report = [kind |-> "UnknownCommand",
                                raw |-> in.cmd.raw]]
    /\ ServerIdle

CliNext ==
    \/ MainEof
    \/ MainEmpty
    \/ MainInfo
    \/ MainStats
    \/ MainPut
    \/ MainGet
    \/ MainPing
    \/ MainQuit
    \/ MainUnknown

CliSpec == CliInit /\ [][CliNext]_vars

\* -------------------------------------------------------------- the claims
\* An "outbound datagram" is a datagram the handler hands to socket.send_to:
\* out lists those of the latest iteration, in order, with the socket's
\* answer.  peers is not changed by the Query and InitiateConnection arms nor
\* by the clock, so while last names such a message peers is the registry
\* the handler saw.

Registered(k) == HashMapGet(peers, k) # None
Record(k) == HashMapGet(peers, k)[1]
EntriesFor(k) == {e \in peers : e.key = k}
Carries(call, record) == Decode(call.bytes) = Ok(PeerInfoMsg(record), <<>>)

\* C1: right after Register{p, priv} from S is handled, the registry holds
\* exactly one record for p, with public_addr = S and private_addr = priv,
\* whether or not p was registered before (last write wins).
C1_RegisterStoresSource ==
    last.kind = "Register" =>
        /\ Cardinality(EntriesFor(last.peer_id)) = 1
        /\ \A e \in EntriesFor(last.peer_id) :
            /\ e.value.peer_id = last.peer_id
            /\ e.value.public_addr = last.from
            /\ e.value.private_addr = Some(last.private_addr)

\* A Register that overwrote a record registered from another source.
C1_Witness ==
    /\ last.kind = "Register"
    /\ last.replaced # None
    /\ last.replaced[1].public_addr # last.from
    /\ Record(last.peer_id).public_addr = last.from

\* C2: in every reachable state each record's public_addr is the source
\* address of the latest Register handled for its peer id (never the address
\* in the message body); every PeerInfo sent carries that address for its
\* peer, and the two datagrams of an introduction are addressed to it.
C2_PublicAddrIsLatestSource ==
    /\ \A e \in peers :
        /\ e.key \in DOMAIN regSource
        /\ e.value.public_addr = regSource[e.key]
    /\ \A i \in 1..Len(out) :
        LET d == Decode(out[i].bytes) IN
        /\ d.ok /\ d.val.kind = "PeerInfo"
        /\ d.val.peer.peer_id \in DOMAIN regSource
        /\ d.val.peer.public_addr = regSource[d.val.peer.peer_id]
    /\ last.kind = "InitiateConnection" =>
        /\ Len(out) >= 1 => out[1].to = regSource[last.from_peer_id]
        /\ Len(out) >= 2 => out[2].to = regSource[last.to_peer_id]

\* A PeerInfo was sent for a peer whose declared private address differs
\* from the source address it registered from.
C2_Witness ==
    /\ last.kind = "Query"
    /\ Len(out) = 1
    /\ Registered(last.target_peer_id)
    /\ Record(last.target_peer_id).private_addr
            # Some(Record(last.target_peer_id).public_addr)
    /\ Carries(out[1], Record(last.target_peer_id))
    /\ Cardinality(peers) = 2

\* C3: handling InitiateConnection{a, b} with a and b registered yields
\* exactly two outbound datagrams: b's record to a's public address and a's
\* record to b's public address.
C3_InitiateYieldsTwoDatagrams ==
    (/\ last.kind = "InitiateConnection"
     /\ Registered(last.from_peer_id)
     /\ Registered(last.to_peer_id)) =>
        /\ Len(out) = 2
        /\ out[1].to = Record(last.from_peer_id).public_addr
        /\ Carries(out[1], Record(last.to_peer_id))
        /\ out[2].to = Record(last.to_peer_id).public_addr
        /\ Carries(out[2], Record(last.from_peer_id))

\* C4: handling InitiateConnection{a, b} with a or b not registered yields
\* no outbound datagram and no error, leaves the registry unchanged, and the
\* loop goes on.
C4_InitiateMissIsSilent ==
    [][(/\ last'.kind = "InitiateConnection"
        /\ ~(HashMapGet(peers, last'.from_peer_id) # None
             /\ HashMapGet(peers, last'.to_peer_id) # None)) =>
            /\ out' = <<>>
            /\ ~last'.err
            /\ peers' = peers
            /\ running']_vars

\* An introduction was asked for with exactly one side registered.
C4_Witness ==
    /\ last.kind = "InitiateConnection"
    /\ Registered(last.from_peer_id) # Registered(last.to_peer_id)
    /\ out = <<>>
    /\ running

\* C5: handling Query{p} from Q yields exactly one outbound datagram when p
\* is registered, a PeerInfo addressed to Q carrying p's current record, and
\* none when p is not registered.
C5_QueryAnswersTheSource ==
    last.kind = "Query" =>
        IF Registered(last.target_peer_id)
        THEN /\ Len(out) = 1
             /\ out[1].to = last.from
             /\ Carries(out[1], Record(last.target_peer_id))
        ELSE out = <<>>

\* A Query answered to a source that is not the target's public address.
C5_Witness ==
    /\ last.kind = "Query"
    /\ Registered(last.target_peer_id)
    /\ Len(out) = 1
    /\ out[1].to = last.from
    /\ last.from # Record(last.target_peer_id).public_addr

\* C6: a socket error other than would-block, from recv_from or from a
\* send_to, is only logged: run does not return.
C6_IoErrorsAreOnlyLogged ==
    (\/ last.kind = "RecvError"
     \/ last.kind \in {"Query", "InitiateConnection"} /\ last.err) => running

\* C7: a datagram that fails to decode yields no outbound datagram, leaves
\* the registry unchanged and does not end the loop, so that the datagram
\* handled next meets the registry the bad one found.
C7_UndecodableIsDiscarded ==
    [][last'.kind = "DecodeError" =>
            /\ out' = <<>>
            /\ peers' = peers
            /\ regSource' = regSource
            /\ running']_vars

\* An undecodable datagram arrived with peers registered.
C7_Witness ==
    /\ last.kind = "DecodeError"
    /\ Cardinality(peers) = 2
    /\ out = <<>>
    /\ running

\* C8: a Register for an already registered peer stores a last_seen
\* strictly greater than the one it replaces.
C8_ReRegisterAdvancesLastSeen ==
    (last.kind = "Register" /\ last.replaced # None) =>
        Record(last.peer_id).last_seen > last.replaced[1].last_seen

\* C9: no step replaces a peer's last_seen by a smaller value.
C9_LastSeenNeverDecreases ==
    [][\A e \in peers : \A f \in peers' :
            e.key = f.key => f.value.last_seen >= e.value.last_seen]_vars

\* C10: every outbound datagram is a PeerInfo whose payload is a record of
\* the registry at the time of sending; a lookup miss, a partial
\* introduction, a decode failure and a received PeerInfo send nothing.
C10_OnlyPeerInfoOfRegistry ==
    /\ \A i \in 1..Len(out) :
        LET d == Decode(out[i].bytes) IN
        /\ d.ok /\ d.rest = <<>>
        /\ d.val.kind = "PeerInfo"
        /\ \E e \in peers : e.value = d.val.peer
    /\ last.kind \in {"Start", "WouldBlock", "RecvError", "DecodeError",
                      "PeerInfo", "Register"} => out = <<>>
    /\ (last.kind = "Query" /\ ~Registered(last.target_peer_id)) => out = <<>>
    /\ (/\ last.kind = "InitiateConnection"
        /\ ~(Registered(last.from_peer_id) /\ Registered(last.to_peer_id)))
            => out = <<>>

\* An introduction of two different peers sent both datagrams.
C10_Witness ==
    /\ last.kind = "InitiateConnection"
    /\ last.from_peer_id # last.to_peer_id
    /\ Len(out) = 2
    /\ out[1].ok /\ out[2].ok

\* C11: a Register{p} that declares no private address, received from S, is
\* accepted: p is then registered with public_addr = S and no private
\* address.  (The decoder hands such a datagram to no arm, so the history
\* shows it as a decode error.)
C11_RegisterWithoutPrivateAddr ==
    (last.kind = "DecodeError" /\ last.bare_register # None) =>
        /\ Registered(last.bare_register[1].peer_id)
        /\ Record(last.bare_register[1].peer_id).public_addr
                = last.bare_register[1].from
        /\ Record(last.bare_register[1].peer_id).private_addr = None

\* C12: records are never deleted: every peer id for which a Register was
\* handled is registered in every later state, and no step (message, decode
\* failure, socket error, idle poll, clock change) removes a key from the
\* registry.
C12_RecordsNeverDeleted ==
    /\ [](\A p \in DOMAIN regSource : Registered(p))
    /\ [][\A e \in peers : HashMapGet(peers', e.key) # None]_vars

\* Both peers are still registered after a socket error.
C12_Witness ==
    /\ last.kind = "RecvError"
    /\ DOMAIN regSource = PeerIds
    /\ \A p \in PeerIds : Registered(p)

\* C13: the registry changes only through Register: every step that is not
\* the handling of a Register leaves every record as it is, last_seen
\* included, and the handling of Register{p} adds, removes or changes no
\* record but the one under p.
C13_OnlyRegisterWrites ==
    [][\A e \in peers \cup peers' :
            \/ e \in peers /\ e \in peers'
            \/ /\ last'.kind = "Register"
               /\ e.key = last'.peer_id]_vars

\* A Register rewrote one record, with a new last_seen, beside another one.
C13_Witness ==
    /\ last.kind = "Register"
    /\ last.replaced # None
    /\ Record(last.peer_id).last_seen # last.replaced[1].last_seen
    /\ Cardinality(peers) = 2

\* C14: a PeerInfo received by the server is ignored: no outbound datagram
\* and no change of the registry, whether or not the peer id of its payload
\* is registered.
C14_PeerInfoIsIgnored ==
    [][last'.kind = "PeerInfo" =>
            /\ out' = <<>>
            /\ peers' = peers
            /\ running']_vars

\* A PeerInfo for a registered peer arrived while the other is not
\* registered.
C14_Witness ==
    /\ last.kind = "PeerInfo"
    /\ Registered(last.peer_id)
    /\ Cardinality(peers) = 1
    /\ out = <<>>

\* C15: handling a Register yields no outbound datagram.
C15_RegisterIsNotAnswered ==
    last.kind = "Register" => out = <<>>

\* A first registration, beside another peer's, sent nothing.
C15_Witness ==
    /\ last.kind = "Register"
    /\ last.replaced = None
    /\ Cardinality(peers) = 2
    /\ out = <<>>

\* C16: a Query{p} or InitiateConnection handled after Register{p} observes
\* that registration whole: the record sent for p has the source and the
\* private address of the Register handled just before, and an
\* introduction on behalf of p goes to that source.
C16_LookupSeesTheRegistration ==
    [][(last.kind = "Register" /\ last' # last) =>
        LET JustRegistered(now) ==
                [peer_id |-> last.peer_id, public_addr |-> last.from,
                 private_addr |-> Some(last.private_addr), last_seen |-> now]
        IN
            /\ (last'.kind = "Query" /\ last'.target_peer_id = last.peer_id) =>
                /\ Len(out') = 1
                /\ \E now \in Times :
                    Carries(out'[1], JustRegistered(now))
            /\ (/\ last'.kind = "InitiateConnection"
                /\ last'.to_peer_id = last.peer_id
                /\ out' # <<>>) =>
                    \E now \in Times :
                        Carries(out'[1], JustRegistered(now))
            /\ (/\ last'.kind = "InitiateConnection"
                /\ last'.from_peer_id = last.peer_id
                /\ out' # <<>>) => out'[1].to = last.from]_vars

\* A peer queried its own registration and was answered.
C16_Witness ==
    /\ last.kind = "Query"
    /\ Len(out) = 1 /\ out[1].ok
    /\ Cardinality(peers) = 1
    /\ last.from = Record(last.target_peer_id).public_addr

\* C17: the two sends of an introduction are ordered and not atomic: the
\* datagram to a (carrying b's record) comes first and the one to b (carrying
\* a's record) second, so at no point was b sent a's record while a was not
\* sent b's; the second send is attempted only if the first succeeded.
C17_InitiateSendsInOrder ==
    last.kind = "InitiateConnection" =>
        /\ Len(out) <= 2
        /\ Len(out) >= 1 =>
            /\ out[1].to = Record(last.from_peer_id).public_addr
            /\ Carries(out[1], Record(last.to_peer_id))
        /\ Len(out) = 2 =>
            /\ out[1].ok
            /\ out[2].to = Record(last.to_peer_id).public_addr
            /\ Carries(out[2], Record(last.from_peer_id))
        /\ (Len(out) >= 1 /\ ~out[1].ok) => Len(out) = 1

\* The first send of an introduction of two peers at different addresses
\* failed, and it is the only one made.
C17_Witness ==
    /\ last.kind = "InitiateConnection"
    /\ Len(out) = 1
    /\ ~out[1].ok
    /\ Record(last.from_peer_id).public_addr
            # Record(last.to_peer_id).public_addr

\* C18: the outcome of InitiateConnection{a, b} does not depend on the
\* source address of the datagram: the calls made are a function of the
\* registry, a, b and the socket's answers, and every destination is the
\* registered public address of a or of b, so a source that is neither
\* receives nothing.  (The event keeps no source: the arm is taken for every
\* source address, and each of them has to yield these calls.)
C18_InitiateIgnoresTheSource ==
    last.kind = "InitiateConnection" =>
        LET a == HashMapGet(peers, last.from_peer_id)
            b == HashMapGet(peers, last.to_peer_id)
            Introduction(res) ==
                IF a = None \/ b = None THEN <<>>
                ELSE LET first == [to |-> a[1].public_addr,
                                   bytes |-> Encode(PeerInfoMsg(b[1])),
                                   ok |-> res[1]]
                         second == [to |-> b[1].public_addr,
                                    bytes |-> Encode(PeerInfoMsg(a[1])),
                                    ok |-> res[2]]
                     IN  IF res[1] THEN <<first, second>> ELSE <<first>>
        IN  /\ \E res \in SendResults(2) : out = Introduction(res)
            /\ \A i \in 1..Len(out) :
                out[i].to \in {a[1].public_addr, b[1].public_addr}

\* Both datagrams of an introduction were sent while some address, a
\* possible source of the request, is the registered address of neither
\* peer and is sent nothing.
C18_Witness ==
    /\ last.kind = "InitiateConnection"
    /\ Len(out) = 2
    /\ \E S \in Addrs :
        /\ S # Record(last.from_peer_id).public_addr
        /\ S # Record(last.to_peer_id).public_addr
        /\ \A i \in 1..Len(out) : out[i].to # S

\* C19: the record stored under key k has peer_id = k; the PeerInfo that
\* answers Query{p} carries peer_id = p; of the PeerInfos of
\* InitiateConnection{a, b}, the one sent to a carries peer_id = b and the
\* one sent to b carries peer_id = a.
C19_PeerIdIsTheKey ==
    /\ \A e \in peers : e.value.peer_id = e.key
    /\ (last.kind = "Query" /\ Len(out) >= 1) =>
            Decode(out[1].bytes).val.peer.peer_id = last.target_peer_id
    /\ (last.kind = "InitiateConnection" /\ Len(out) >= 1) =>
            Decode(out[1].bytes).val.peer.peer_id = last.to_peer_id
    /\ (last.kind = "InitiateConnection" /\ Len(out) >= 2) =>
            Decode(out[2].bytes).val.peer.peer_id = last.from_peer_id

\* An introduction of two different peers made both sends, the second of
\* which failed.
C19_Witness ==
    /\ last.kind = "InitiateConnection"
    /\ last.from_peer_id # last.to_peer_id
    /\ Len(out) = 2
    /\ ~out[2].ok
    /\ Decode(out[1].bytes).val.peer.peer_id = last.to_peer_id
    /\ Decode(out[2].bytes).val.peer.peer_id = last.from_peer_id

\* The text a put with these value words is expected to store: the words,
\* one space apart.
ExpectedValue(words) == words[1] \o Spaced(Tail(words), <<" ">>)

\* C20: in the line tool, get k reports the value of the most recent put
\* that had a key k and a value (last put wins) and not-found if there was
\* none; the store holds exactly what those puts left, so nothing else
\* changes it; a put without key or without value is reported as an unknown
\* command.
C20_GetReportsTheLatestPut ==
    /\ cli.store =
        {[key |-> k, value |-> ExpectedValue(cli.lastPut[k][1])] :
            k \in {x \in Keys : cli.lastPut[x] # None}}
    /\ (cli.asked.verb = "get" /\ cli.asked.args # <<>>) =>
        LET k == cli.asked.args[1] IN
        IF cli.lastPut[k] = None
        THEN cli.report = [kind |-> "NotFound", key |-> k]
        ELSE cli.report = [kind |-> "Found", key |-> k,
                           value |-> ExpectedValue(cli.lastPut[k][1])]
    /\ (cli.asked.verb = "put" /\ Len(cli.asked.args) < 2) =>
            cli.report.kind = "UnknownCommand"

\* A get found a value of two words while both keys are stored.
C20_Witness ==
    /\ cli.report.kind = "Found"
    /\ Len(cli.lastPut[cli.report.key][1]) = 2
    /\ Cardinality(cli.store) = 2
    /\ cli.open

====
